---- MODULE Spec2Model ----
(***************************************************************************)
(* Model of the chat agent service (src/server.py): the /chat endpoint     *)
(* drives a two-node graph (agent -> tools -> agent ...) compiled with a   *)
(* Postgres checkpointer.  One request handler is one worker; handlers run *)
(* in the web framework's thread pool, so several can be in flight at once *)
(* and they share nothing but the checkpoint table.                        *)
(*                                                                         *)
(* The graph runtime is modelled at the granularity of its supersteps:     *)
(* load the thread's latest checkpoint, apply the input, then run one node *)
(* per superstep, writing a checkpoint after the input and after every     *)
(* superstep, and stopping with an error once the runtime's recursion      *)
(* limit is reached.                                                       *)
(***************************************************************************)
EXTENDS Integers, Sequences, FiniteSets, TLC

\* ------------------------------------------------------------------ bounds

\* /chat calls made in one behaviour.
MaxTurns == 2
\* CSV files in the archive the importer processes.
MaxCsv == 4
\* Frames the importer buffers before it writes them (100 in the source,
\* scaled down with MaxCsv).
BATCH_SIZE == 2
\* Lines a strategy prints while the backtest service runs it.
Lines == 2
\* Supersteps one stream() call may run (the runtime's recursion limit; the
\* code passes none, so the runtime default applies; scaled down here).
RecursionLimit == 4

\* Request handlers in flight at once: two of the pool's threads.
Workers == {1, 2}
\* Thread ids a request may carry; the empty string is one of them.
Threads == {"t1", ""}
\* Message texts a caller may send; texts are sequences of tokens.
UserTexts == {<<"q1">>}
\* Request bodies a caller may post: both fields, or only one of them.
Requests ==
    [message : UserTexts, thread_id : Threads]
        \cup [message : UserTexts] \cup [thread_id : Threads]
\* What a similarity search may return: a one-document hit, nothing, an error.
Retrievals == {[kind |-> "hit", context |-> <<"k1">>],
               [kind |-> "empty", context |-> <<>>],
               [kind |-> "error", context |-> <<>>]}
\* What the backtest service may do with a POST: reply 200 with a JSON body,
\* reply with another status and a text, or not be reachable in time.
ServiceReplies == {[kind |-> "ok", body |-> <<"result">>],
                   [kind |-> "status", body |-> <<"boom">>],
                   [kind |-> "exception", body |-> <<"timeout">>]}

\* --------------------------------------------------------------- messages

\* A message that has not been given an id yet.
NoId == <<>>
\* Fresh ids: the n-th id handler w draws is <<w, n>>.
NextFresh(g) == <<g[1], g[2] + 1>>
NoCall == <<>>

HumanMessage(c) ==
    [role |-> "user", content |-> c, tool_calls |-> <<>>, tool_call_id |-> NoCall, id |-> NoId]

AIMessage(c, calls, id) ==
    [role |-> "assistant", content |-> c, tool_calls |-> calls, tool_call_id |-> NoCall, id |-> id]

ToolMessage(c, callId) ==
    [role |-> "tool", content |-> c, tool_calls |-> <<>>, tool_call_id |-> callId, id |-> NoId]

\* The i-th tool-call request of the response with id `id`: the model gives
\* every request an id of its own.
ToolCall(id, i, name) == [id |-> <<id, i>>, name |-> name]

RECURSIVE AssignIds(_, _)
\* add_messages gives every message that has no id a fresh one.
AssignIds(s, n) ==
    IF s = <<>> THEN [msgs |-> <<>>, next |-> n]
    ELSE LET h == Head(s)
             h2 == IF h.id = NoId THEN [h EXCEPT !.id = n] ELSE h
             n2 == IF h.id = NoId THEN NextFresh(n) ELSE n
             rest == AssignIds(Tail(s), n2)
         IN [msgs |-> <<h2>> \o rest.msgs, next |-> rest.next]

RECURSIVE MergeById(_, _)
\* add_messages: a message whose id is already in the list replaces that
\* entry in place; any other message is appended.
MergeById(left, right) ==
    IF right = <<>> THEN left
    ELSE LET m == Head(right)
             hit == {i \in 1..Len(left) : left[i].id = m.id}
         IN IF hit # {}
            THEN MergeById([left EXCEPT ![CHOOSE i \in hit : TRUE] = m], Tail(right))
            ELSE MergeById(Append(left, m), Tail(right))

\* Faulty variant of add_messages: the channel has no reducer, an update replaces
\* the list.
add_messages_Overwrite(left, right, n) ==
    LET r == AssignIds(right, n) IN [msgs |-> r.msgs, next |-> r.next]

\* The reducer of AgentState.messages; n is the next fresh id.
add_messages(left, right, n) ==
    LET l == AssignIds(left, n)
        r == AssignIds(right, l.next)
    IN [msgs |-> MergeById(l.msgs, r.msgs), next |-> r.next]

Last(s) == s[Len(s)]

\* ------------------------------------------------------------------ state

VARIABLES
    store,       \* checkpoint table: thread id -> the latest checkpoint written
    inbound,     \* thread id -> the message texts callers have sent to it
    nextId,      \* per handler: how many fresh ids it has drawn
    turns,       \* /chat calls made so far
    pc,          \* per handler: idle, input, running, done, out_of_steps, failed
    thread,      \* per handler: request.thread_id
    msg,         \* per handler: request.message
    loaded,      \* per handler: the checkpoint it loaded
    resumed,     \* per handler: it loaded a checkpoint left with tools scheduled
                 \* by a turn that is no longer running
    messages,    \* per handler: the value of the messages channel
    nxt,         \* per handler: the node scheduled for the next superstep
    step,        \* per handler: the loop's step counter
    stop,        \* per handler: the step past which the loop gives up
    writes,      \* per handler: checkpoints written in this turn
    toolSteps,   \* per handler: tools supersteps run in this turn
    final_state, \* per handler: the last update the stream yielded
    outcome,     \* per handler: what the last finished call gave its caller
    prompt,      \* per handler: the list the last Agent Step passed to the model
                 \* (empty when the last superstep was not an Agent Step)
    docs,        \* per handler: what that Agent Step's similarity search gave:
                 \* none (not queried), hit, empty, error
    searches     \* per handler: similarity searches made in this turn

chatVars == <<store, inbound, nextId, turns, pc, thread, msg, loaded, resumed, messages,
              nxt, step, stop, writes, toolSteps, final_state, outcome, prompt, docs,
              searches>>

\* The importer (src/data_importer.py), one archive of one run.
VARIABLES
    importer_pc, \* off, start, loop (the CSV loop), done
    csv_files,   \* the archive's CSV files in order: can each be read and cleaned
    csv_i,       \* CSV files the loop has gone through
    dfs_buffer,  \* the frames waiting to be written, by the index of their file
    copied,      \* per CSV file: times its frame was passed to fast_copy_to_db
    copy_raised  \* fast_copy_to_db has raised while this archive was processed

importerVars == <<importer_pc, csv_files, csv_i, dfs_buffer, copied, copy_raised>>

\* The backtest service (src/backtrader_service/main.py).
VARIABLES
    bt_pc,       \* per request: idle, running (inside cerebro.run), returned
    sys_stdout,  \* the process-wide sys.stdout: the original stream or the
                 \* capture buffer of a request
    capture,     \* per request: the text in its capture buffer
    console,     \* the text written to the original stream
    printed,     \* per request: lines its strategy has printed
    bt_response  \* per request: the body returned

backtestVars == <<bt_pc, sys_stdout, capture, console, printed, bt_response>>

vars == <<chatVars, importerVars, backtestVars>>

\* Concurrent requests to /run_backtest: two of the pool's threads.
BtRequests == {1, 2}
\* The stream sys.stdout is at start-up; a capture buffer is named by its
\* request.
sys___stdout__ == 0

\* The importer is not running.
ImporterOff ==
    /\ importer_pc = "off"
    /\ csv_files = <<>>
    /\ csv_i = 0
    /\ dfs_buffer = <<>>
    /\ copied = <<>>
    /\ copy_raised = FALSE

NoResponse == [status |-> "none", logs |-> <<>>]

\* The backtest service has no request.
BacktestOff ==
    /\ bt_pc = [r \in BtRequests |-> "idle"]
    /\ sys_stdout = sys___stdout__
    /\ capture = [r \in BtRequests |-> <<>>]
    /\ console = <<>>
    /\ printed = [r \in BtRequests |-> 0]
    /\ bt_response = [r \in BtRequests |-> NoResponse]

NoOutcome == [kind |-> "none", content |-> <<>>]

\* The state a thread with no checkpoint starts from.
EmptyCheckpoint == [messages |-> <<>>, step |-> -2, nxt |-> "__end__"]

\* The thread's latest checkpoint (the only one the endpoint ever reads), or
\* the empty one.
Load(t) == store[t]

ChatInit ==
    /\ store = [t \in Threads |-> EmptyCheckpoint]
    /\ inbound = [t \in Threads |-> {}]
    /\ nextId = [w \in Workers |-> 1]
    /\ turns = 0
    /\ pc = [w \in Workers |-> "idle"]
    /\ thread = [w \in Workers |-> "t1"]
    /\ msg = [w \in Workers |-> <<>>]
    /\ loaded = [w \in Workers |-> EmptyCheckpoint]
    /\ resumed = [w \in Workers |-> FALSE]
    /\ messages = [w \in Workers |-> <<>>]
    /\ nxt = [w \in Workers |-> "__end__"]
    /\ step = [w \in Workers |-> 0]
    /\ stop = [w \in Workers |-> 0]
    /\ writes = [w \in Workers |-> 0]
    /\ toolSteps = [w \in Workers |-> 0]
    /\ final_state = [w \in Workers |-> <<>>]
    /\ outcome = [w \in Workers |-> NoOutcome]
    /\ prompt = [w \in Workers |-> <<>>]
    /\ docs = [w \in Workers |-> "none"]
    /\ searches = [w \in Workers |-> 0]

Init == ChatInit /\ ImporterOff /\ BacktestOff

\* ------------------------------------------------------------ the nodes

\* The prompt text agent_node builds from a retrieved document and the query.
Augment(context, query) == <<"[background]">> \o context \o <<"[question]">> \o query

\* Faulty variant of Retrieves: the search runs whenever the history holds a
\* User message.
Retrieves_AnyUser(msgs) == \E j \in 1..Len(msgs) : msgs[j].role = "user"

\* Whether agent_node runs the similarity search at all.
Retrieves(msgs) == Last(msgs).role = "user"

\* Faulty variant of Retrieved: the last message is rewritten whatever the
\* search gave.
Retrieved_AlwaysAugment(msgs, ret) ==
    IF Retrieves(msgs)
    THEN [msgs EXCEPT ![Len(msgs)] = HumanMessage(Augment(ret.context, Last(msgs).content))]
    ELSE msgs

\* The messages list after agent_node's retrieval part.  The list is the
\* channel's own list object, and on a hit its last entry is assigned a new
\* HumanMessage (no id) holding the augmented text.
Retrieved(msgs, ret) ==
    IF Retrieves(msgs) /\ ret.kind = "hit"
    THEN [msgs EXCEPT ![Len(msgs)] = HumanMessage(Augment(ret.context, Last(msgs).content))]
    ELSE msgs

\* Faulty variant of should_continue: any message of the history that carries tool
\* calls sends the turn to tools.
should_continue_AnyMessage(msgs) ==
    IF \E i \in 1..Len(msgs) : msgs[i].tool_calls # <<>> THEN "tools" ELSE "__end__"

\* Conditional edge after agent.
should_continue(msgs) ==
    IF Last(msgs).tool_calls # <<>> THEN "tools" ELSE "__end__"

\* Faulty variant of execute_backtest: an exception of the HTTP call is
\* swallowed and nothing is returned.
execute_backtest_Silent(reply) ==
    CASE reply.kind = "ok" -> reply.body
      [] reply.kind = "status" -> <<"[service error]">> \o reply.body
      [] OTHER -> <<>>

\* Faulty variant of execute_backtest: the JSON body of a 200 reply is
\* wrapped in a label too.
execute_backtest_Wrapped(reply) ==
    CASE reply.kind = "ok" -> <<"[result]">> \o reply.body
      [] reply.kind = "status" -> <<"[service error]">> \o reply.body
      [] OTHER -> <<"[cannot connect]">> \o reply.body

\* What the execute_backtest tool returns for a reply of the service.
execute_backtest(reply) ==
    CASE reply.kind = "ok" -> reply.body
      [] reply.kind = "status" -> <<"[service error]">> \o reply.body
      [] OTHER -> <<"[cannot connect]">> \o reply.body

\* ToolNode, one call: the registered tool's result, or an error text for a
\* name that is not registered.
RunTool(call, reply) ==
    IF call.name = "execute_backtest"
    THEN ToolMessage(execute_backtest(reply), call.id)
    ELSE ToolMessage(<<"[not a valid tool]", call.name>>, call.id)

\* Faulty variant of ToolNode: every output is built from the first call.
ToolNode_FirstCall(msgs, replies) ==
    LET calls == Last(msgs).tool_calls
    IN [i \in 1..Len(calls) |-> RunTool(calls[1], replies[i])]

\* ToolNode: one ToolMessage per tool call of the last message, in the
\* order of the calls.
ToolNode(msgs, replies) ==
    LET calls == Last(msgs).tool_calls
    IN [i \in 1..Len(calls) |-> RunTool(calls[i], replies[i])]

\* The tool calls a model response may carry: none, or two of which the
\* second names a tool that is not registered.
CallShapes == {<<>>, <<"execute_backtest", "other">>}

\* A model response; its text is its own (no two responses read the same).
Response(shape, id) ==
    AIMessage(<<"a", ToString(id)>>, [i \in 1..Len(shape) |-> ToolCall(id, i, shape[i])], id)

\* ------------------------------------------------------------- the loop

\* Faulty variant of Status: the step counter is never compared with stop.
Status_NoLimit(s, st, n) ==
    IF n = "__end__" THEN "done" ELSE "running"

\* PregelLoop status after a superstep at step s: out of steps once the
\* counter passes stop, done when nothing is scheduled.
Status(s, st, n) ==
    IF s > st THEN "out_of_steps"
    ELSE IF n = "__end__" THEN "done" ELSE "running"

\* chat_endpoint is called and the loop loads the thread's latest checkpoint.
\* The request goes to the first free handler (which one is immaterial).
Begin(w, t, m) ==
    /\ pc[w] = "idle"
    /\ \A v \in Workers : v < w => pc[v] # "idle"
    /\ turns < MaxTurns
    /\ turns' = turns + 1
    /\ inbound' = [inbound EXCEPT ![t] = @ \cup {m}]
    /\ thread' = [thread EXCEPT ![w] = t]
    /\ msg' = [msg EXCEPT ![w] = m]
    /\ loaded' = [loaded EXCEPT ![w] = Load(t)]
    /\ resumed' = [resumed EXCEPT ![w] =
                      Load(t).nxt = "tools" /\ \A v \in Workers : pc[v] = "idle"]
    /\ messages' = [messages EXCEPT ![w] = Load(t).messages]
    /\ step' = [step EXCEPT ![w] = Load(t).step + 1]
    /\ stop' = [stop EXCEPT ![w] = Load(t).step + 1 + RecursionLimit + 1]
    /\ nxt' = [nxt EXCEPT ![w] = "__input__"]
    /\ writes' = [writes EXCEPT ![w] = 0]
    /\ toolSteps' = [toolSteps EXCEPT ![w] = 0]
    /\ final_state' = [final_state EXCEPT ![w] = <<>>]
    /\ outcome' = [outcome EXCEPT ![w] = NoOutcome]
    /\ pc' = [pc EXCEPT ![w] = "running"]
    /\ prompt' = [prompt EXCEPT ![w] = <<>>]
    /\ docs' = [docs EXCEPT ![w] = "none"]
    /\ searches' = [searches EXCEPT ![w] = 0]
    /\ UNCHANGED <<store, nextId, importerVars, backtestVars>>

\* ChatRequest validation: both fields are required strings, and any string
\* will do.
Valid(req) == {"message", "thread_id"} \subseteq DOMAIN req

\* A body that fails validation is answered 422 before chat_endpoint runs.
Reject(w, req) ==
    /\ pc[w] = "idle"
    /\ \A v \in Workers : v < w => pc[v] # "idle"
    /\ turns < MaxTurns
    /\ ~Valid(req)
    /\ turns' = turns + 1
    /\ outcome' = [outcome EXCEPT ![w] = [kind |-> "client_error", content |-> <<>>]]
    /\ UNCHANGED <<store, inbound, nextId, pc, thread, msg, loaded, resumed, messages,
                   nxt, step, stop, writes, toolSteps, final_state, prompt, docs,
                   searches, importerVars, backtestVars>>

\* A superstep's end: the channel value, the scheduled node and the
\* checkpoint written for them.
Commit(w, msgs, n) ==
    /\ messages' = [messages EXCEPT ![w] = msgs]
    /\ nxt' = [nxt EXCEPT ![w] = n]
    /\ store' = [store EXCEPT ![thread[w]] =
                    [messages |-> msgs, step |-> step[w], nxt |-> n]]
    /\ step' = [step EXCEPT ![w] = @ + 1]
    /\ writes' = [writes EXCEPT ![w] = @ + 1]
    /\ pc' = [pc EXCEPT ![w] = Status(step[w] + 1, stop[w], n)]
    /\ UNCHANGED stop

\* Faulty variant of PutInput: the input is applied without a checkpoint.
PutInput_NoCheckpoint(w) ==
    /\ pc[w] = "running" /\ nxt[w] = "__input__"
    /\ nxt' = [nxt EXCEPT ![w] = "__start__"]
    /\ UNCHANGED <<store, inbound, nextId, turns, pc, thread, msg, loaded, resumed,
                   messages, step, stop, writes, toolSteps, final_state, outcome,
                   prompt, docs, searches, importerVars, backtestVars>>

\* The input is applied: whatever the loaded checkpoint had scheduled is
\* dropped, the input is handed to the entry node, a checkpoint is written.
PutInput(w) ==
    /\ pc[w] = "running" /\ nxt[w] = "__input__"
    /\ Commit(w, messages[w], "__start__")
    /\ UNCHANGED <<inbound, nextId, turns, thread, msg, loaded, resumed, toolSteps,
                   final_state, outcome, prompt, docs, searches, importerVars,
                   backtestVars>>

\* The entry node writes the input message to the messages channel.
StartStep(w) ==
    /\ pc[w] = "running" /\ nxt[w] = "__start__"
    /\ LET r == add_messages(messages[w], <<HumanMessage(msg[w])>>, <<w, nextId[w]>>)
       IN /\ Commit(w, r.msgs, "agent")
          /\ nextId' = [nextId EXCEPT ![w] = r.next[2]]
    /\ UNCHANGED <<inbound, turns, thread, msg, loaded, resumed, toolSteps, final_state,
                   outcome, prompt, docs, searches, importerVars, backtestVars>>

\* agent_node and its conditional edge, the model answering.
AgentStep(w, ret, shape) ==
    /\ pc[w] = "running" /\ nxt[w] = "agent"
    /\ LET response == Response(shape, <<w, nextId[w]>>)
           sent == Retrieved(messages[w], ret)
           r == add_messages(sent, <<response>>, <<w, nextId[w] + 1>>)
       IN /\ Commit(w, r.msgs, should_continue(r.msgs))
          /\ nextId' = [nextId EXCEPT ![w] = r.next[2]]
          /\ final_state' = [final_state EXCEPT ![w] = <<response>>]
          /\ prompt' = [prompt EXCEPT ![w] = sent]
    /\ docs' = [docs EXCEPT ![w] = IF Retrieves(messages[w]) THEN ret.kind ELSE "none"]
    /\ searches' = [searches EXCEPT ![w] = IF Retrieves(messages[w]) THEN @ + 1 ELSE @]
    /\ UNCHANGED <<inbound, turns, thread, msg, loaded, resumed, toolSteps, outcome,
                   importerVars, backtestVars>>

\* agent_node with the model call raising: the superstep writes nothing.
AgentFail(w) ==
    /\ pc[w] = "running" /\ nxt[w] = "agent"
    /\ pc' = [pc EXCEPT ![w] = "failed"]
    /\ searches' = [searches EXCEPT ![w] = IF Retrieves(messages[w]) THEN @ + 1 ELSE @]
    /\ prompt' = [prompt EXCEPT ![w] = <<>>]
    /\ docs' = [docs EXCEPT ![w] = "none"]
    /\ UNCHANGED <<store, inbound, nextId, turns, thread, msg, loaded, resumed, messages,
                   nxt, step, stop, writes, toolSteps, final_state, outcome, importerVars,
                   backtestVars>>

\* The tools node and its edge back to agent.
ToolsStep(w, replies) ==
    /\ pc[w] = "running" /\ nxt[w] = "tools"
    /\ LET out == ToolNode(messages[w], replies)
           r == add_messages(messages[w], out, <<w, nextId[w]>>)
       IN /\ Commit(w, r.msgs, "agent")
          /\ nextId' = [nextId EXCEPT ![w] = r.next[2]]
          /\ final_state' = [final_state EXCEPT ![w] = out]
    /\ toolSteps' = [toolSteps EXCEPT ![w] = @ + 1]
    /\ prompt' = [prompt EXCEPT ![w] = <<>>]
    /\ docs' = [docs EXCEPT ![w] = "none"]
    /\ UNCHANGED <<inbound, turns, thread, msg, loaded, resumed, outcome, searches,
                   importerVars, backtestVars>>

\* The handler is free again; what it held in memory is gone.
Release(w, o) ==
    /\ pc' = [pc EXCEPT ![w] = "idle"]
    /\ outcome' = [outcome EXCEPT ![w] = o]
    /\ messages' = [messages EXCEPT ![w] = <<>>]
    /\ loaded' = [loaded EXCEPT ![w] = EmptyCheckpoint]
    /\ resumed' = [resumed EXCEPT ![w] = FALSE]
    /\ msg' = [msg EXCEPT ![w] = <<>>]
    /\ nxt' = [nxt EXCEPT ![w] = "__end__"]
    /\ step' = [step EXCEPT ![w] = 0]
    /\ stop' = [stop EXCEPT ![w] = 0]
    /\ writes' = [writes EXCEPT ![w] = 0]
    /\ toolSteps' = [toolSteps EXCEPT ![w] = 0]
    /\ final_state' = [final_state EXCEPT ![w] = <<>>]
    /\ thread' = [thread EXCEPT ![w] = "t1"]
    /\ prompt' = [prompt EXCEPT ![w] = <<>>]
    /\ docs' = [docs EXCEPT ![w] = "none"]
    /\ searches' = [searches EXCEPT ![w] = 0]
    /\ UNCHANGED <<store, inbound, nextId, turns, importerVars, backtestVars>>

\* Faulty variant of Return: the request's own message is sent back.
Return_Echo(w) ==
    /\ pc[w] = "done"
    /\ Release(w, [kind |-> "response", content |-> msg[w]])

\* The stream is exhausted: the content of the last update's last message
\* is the response.
Return(w) ==
    /\ pc[w] = "done"
    /\ Release(w, [kind |-> "response", content |-> Last(final_state[w]).content])

\* Faulty variant of Raise: the endpoint catches the exception and answers
\* with a text of its own.
Raise_Fallback(w) ==
    /\ pc[w] \in {"out_of_steps", "failed"}
    /\ Release(w, [kind |-> "response", content |-> <<"sorry">>])

\* The stream raised (recursion limit, model failure); the endpoint does
\* not catch it and the caller gets a server error.
Raise(w) ==
    /\ pc[w] \in {"out_of_steps", "failed"}
    /\ Release(w, [kind |-> "error", content |-> <<>>])

\* The handler dies while its request is in flight (the worker is killed,
\* the connection is lost): the caller gets nothing.
Crash(w) ==
    /\ pc[w] # "idle"
    /\ Release(w, NoOutcome)

Next ==
    \/ \E w \in Workers, t \in Threads, m \in UserTexts : Begin(w, t, m)
    \/ \E w \in Workers, req \in Requests : Reject(w, req)
    \/ \E w \in Workers : PutInput(w)
    \/ \E w \in Workers : StartStep(w)
    \/ \E w \in Workers, ret \in Retrievals, shape \in CallShapes : AgentStep(w, ret, shape)
    \/ \E w \in Workers : AgentFail(w)
    \/ \E w \in Workers : \E replies \in [1..2 -> ServiceReplies] : ToolsStep(w, replies)
    \/ \E w \in Workers : Return(w)
    \/ \E w \in Workers : Raise(w)
    \/ \E w \in Workers : Crash(w)

Spec == Init /\ [][Next]_vars

\* ------------------------------------------------------- derived notions

\* The call ids requested by the Assistant messages of a history.
RequestedCalls(msgs) ==
    UNION {{msgs[i].tool_calls[k].id : k \in 1..Len(msgs[i].tool_calls)} :
           i \in {j \in 1..Len(msgs) : msgs[j].role = "assistant"}}

\* The call ids a Tool message of the history answers.
ResolvedCalls(msgs) ==
    {msgs[i].tool_call_id : i \in {j \in 1..Len(msgs) : msgs[j].role = "tool"}}

\* pending_tool_calls: requested and not answered.
PendingCalls(msgs) == RequestedCalls(msgs) \ ResolvedCalls(msgs)

\* A handler with a turn in flight.
InFlight(w) == pc[w] # "idle"

\* A turn at one of its two ends: finished, or cut off by the limit.
AtEnd(w) == pc[w] \in {"done", "out_of_steps"}

\* ----------------------------------------------------------- the importer

\* What reading and cleaning one CSV file may do: give a frame, or raise.
CsvOutcomes == {"ok", "error"}
\* The archives: every pattern of readable and unreadable CSV files.
Archives == UNION {[1..n -> CsvOutcomes] : n \in 0..MaxCsv}
\* What fast_copy_to_db may do with a frame: copy it and return True, fail
\* the copy, roll back and return False, or raise before its own try block
\* (no connection to be had).
CopyOutcomes == {"true", "false", "raise"}

\* The flush condition of the CSV loop, for the k-th of n files.
Flushes(buf, k, n) == Len(buf) >= BATCH_SIZE \/ k = n

\* The frames of buf handed to fast_copy_to_db once more.
Passed(c, buf) ==
    [k \in DOMAIN c |-> c[k] + Cardinality({j \in 1..Len(buf) : buf[j] = k})]

\* The archive is extracted, its CSV files listed, the buffer created.
Extract(files) ==
    /\ importer_pc = "start"
    /\ importer_pc' = "loop"
    /\ csv_files' = files
    /\ csv_i' = 0
    /\ dfs_buffer' = <<>>
    /\ copied' = [k \in 1..Len(files) |-> 0]
    /\ copy_raised' = FALSE
    /\ UNCHANGED <<chatVars, backtestVars>>

\* One pass of the CSV loop: read and clean the file, buffer its frame,
\* flush when the buffer is full or the file is the last one; whatever is
\* raised on the way is swallowed.
ReadCsv(copy) ==
    /\ importer_pc = "loop"
    /\ csv_i < Len(csv_files)
    /\ LET k == csv_i + 1
           buf == Append(dfs_buffer, k)
       IN /\ csv_i' = k
          /\ IF csv_files[k] = "error"
             THEN UNCHANGED <<dfs_buffer, copied, copy_raised>>
             ELSE IF ~Flushes(buf, k, Len(csv_files))
             THEN dfs_buffer' = buf /\ UNCHANGED <<copied, copy_raised>>
             ELSE /\ copied' = Passed(copied, buf)
                  /\ dfs_buffer' = IF copy = "raise" THEN buf ELSE <<>>
                  /\ copy_raised' = (copy_raised \/ copy = "raise")
    /\ UNCHANGED <<importer_pc, csv_files, chatVars, backtestVars>>

\* The CSV loop is over and the archive is reported done; the buffer is not
\* looked at again.
EndArchive ==
    /\ importer_pc = "loop"
    /\ csv_i = Len(csv_files)
    /\ importer_pc' = "done"
    /\ UNCHANGED <<csv_files, csv_i, dfs_buffer, copied, copy_raised, chatVars,
                   backtestVars>>

ImporterInit ==
    /\ importer_pc = "start"
    /\ csv_files = <<>>
    /\ csv_i = 0
    /\ dfs_buffer = <<>>
    /\ copied = <<>>
    /\ copy_raised = FALSE
    /\ ChatInit
    /\ BacktestOff

ImporterNext ==
    \/ \E files \in Archives : Extract(files)
    \/ \E copy \in CopyOutcomes : ReadCsv(copy)
    \/ EndArchive

SpecImporter == ImporterInit /\ [][ImporterNext]_vars

\* --------------------------------------------------- the backtest service

\* The k-th line the strategy of request r prints.
Line(r, k) == <<r, k>>

\* Everything the strategy of request r prints in a full run.
Output(r) == [k \in 1..Lines |-> Line(r, k)]

\* The request's code does not compile or defines no GeneratedStrategy: an
\* error body is returned before anything is captured.
CompileFails(r) ==
    /\ bt_pc[r] = "idle"
    /\ bt_pc' = [bt_pc EXCEPT ![r] = "returned"]
    /\ bt_response' = [bt_response EXCEPT ![r] = [status |-> "error", logs |-> <<>>]]
    /\ UNCHANGED <<sys_stdout, capture, console, printed, chatVars, importerVars>>

\* The strategy is loaded, a capture buffer is made and sys.stdout is set
\* to it.
StartRun(r) ==
    /\ bt_pc[r] = "idle"
    /\ bt_pc' = [bt_pc EXCEPT ![r] = "running"]
    /\ capture' = [capture EXCEPT ![r] = <<>>]
    /\ sys_stdout' = r
    /\ UNCHANGED <<console, printed, bt_response, chatVars, importerVars>>

\* The strategy prints a line: it goes to whatever sys.stdout is then.
PrintLine(r) ==
    /\ bt_pc[r] = "running"
    /\ printed[r] < Lines
    /\ printed' = [printed EXCEPT ![r] = @ + 1]
    /\ IF sys_stdout = sys___stdout__
       THEN console' = Append(console, Line(r, printed[r] + 1)) /\ UNCHANGED capture
       ELSE /\ capture' = [capture EXCEPT ![sys_stdout] = Append(@, Line(r, printed[r] + 1))]
            /\ UNCHANGED console
    /\ UNCHANGED <<bt_pc, sys_stdout, bt_response, chatVars, importerVars>>

\* cerebro.run raises: sys.stdout is set to the original stream and an
\* error body is returned.
RunFails(r) ==
    /\ bt_pc[r] = "running"
    /\ bt_pc' = [bt_pc EXCEPT ![r] = "returned"]
    /\ sys_stdout' = sys___stdout__
    /\ bt_response' = [bt_response EXCEPT ![r] = [status |-> "error", logs |-> <<>>]]
    /\ UNCHANGED <<capture, console, printed, chatVars, importerVars>>

\* cerebro.run returns: sys.stdout is set to the original stream and the
\* capture buffer's text is returned as the logs.
FinishRun(r) ==
    /\ bt_pc[r] = "running"
    /\ printed[r] = Lines
    /\ bt_pc' = [bt_pc EXCEPT ![r] = "returned"]
    /\ sys_stdout' = sys___stdout__
    /\ bt_response' = [bt_response EXCEPT ![r] = [status |-> "success", logs |-> capture[r]]]
    /\ UNCHANGED <<capture, console, printed, chatVars, importerVars>>

BacktestInit == BacktestOff /\ ChatInit /\ ImporterOff

BacktestNext ==
    \/ \E r \in BtRequests : CompileFails(r)
    \/ \E r \in BtRequests : StartRun(r)
    \/ \E r \in BtRequests : PrintLine(r)
    \/ \E r \in BtRequests : RunFails(r)
    \/ \E r \in BtRequests : FinishRun(r)

SpecBacktest == BacktestInit /\ [][BacktestNext]_vars

\* ---------------------------------------------------------------- claims

\* C1 (iteration cap, as the specification states it): a turn cut off by the
\* limit has run exactly the configured maximum number of Tool Steps, its
\* history ends in a System message noting the limit, and that history is
\* the thread's persisted checkpoint.
C1_IterationCapAbort ==
    \A w \in Workers :
        pc[w] = "out_of_steps" =>
            /\ toolSteps[w] = RecursionLimit
            /\ Last(messages[w]).role = "system"
            /\ store[thread[w]].messages = messages[w]

\* User messages of a history, as texts.
UserTexts_(msgs) == {msgs[i].content : i \in {j \in 1..Len(msgs) : msgs[j].role = "user"}}

\* C2 (history fidelity): every User message of a thread's history, in a
\* handler's graph state and in the persisted checkpoint, has exactly the
\* text of a message a caller sent to that thread.
C2_HistoryFidelity ==
    /\ \A t \in Threads : UserTexts_(store[t].messages) \subseteq inbound[t]
    /\ \A w \in Workers : InFlight(w) => UserTexts_(messages[w]) \subseteq inbound[thread[w]]

\* C3 (idempotent resumption): a call that finds the thread's checkpoint
\* left with a Tool Step scheduled, by a turn that stopped right after that
\* save, resumes there: once its input phase is over it never has an Agent
\* Step scheduled while a tool call of the persisted pending set is still
\* unanswered, and none of those calls is answered twice.
C3_ResumesAtToolStep ==
    \A w \in Workers :
        (resumed[w] /\ pc[w] = "running" /\ nxt[w] = "agent")
        => PendingCalls(loaded[w].messages) \cap PendingCalls(messages[w]) = {}

\* C4 (per-thread serialization): no two calls for the same thread are in
\* flight at once.
C4_PerThreadSerialization ==
    \A v, w \in Workers :
        (v # w /\ InFlight(v) /\ InFlight(w)) => thread[v] # thread[w]

\* Every history there is: each in-flight handler's graph state and each
\* thread's persisted checkpoint.
Histories ==
    {messages[w] : w \in {v \in Workers : InFlight(v)}} \cup {store[t].messages : t \in Threads}

RequestsOf(h, j) ==
    {p \in UNION {{<<i, k>> : k \in 1..Len(h[i].tool_calls)} : i \in 1..(j - 1)} :
        /\ h[p[1]].role = "assistant"
        /\ h[p[1]].tool_calls[p[2]].id = h[j].tool_call_id}

\* C6 (at-most-once resolution): in every history each Tool message answers
\* exactly one tool-call request of an earlier Assistant message, and no
\* other Tool message answers the same call id.
C6_AtMostOnce ==
    \A h \in Histories : \A j \in 1..Len(h) :
        h[j].role = "tool" =>
            /\ Cardinality(RequestsOf(h, j)) = 1
            /\ \A j2 \in 1..Len(h) :
                  (j2 # j /\ h[j2].role = "tool") => h[j2].tool_call_id # h[j].tool_call_id

\* C6 witness: a persisted history in which two Tool Steps have answered
\* two requests each.
C6_Witness ==
    \E t \in Threads :
        Cardinality({j \in 1..Len(store[t].messages) : store[t].messages[j].role = "tool"}) >= 4

\* C7 (as stated): at either end of a turn no tool call is pending.
C7_NoPendingAtEnd ==
    \A w \in Workers : AtEnd(w) => PendingCalls(messages[w]) = {}

\* Index of the last User message of a history (0 when there is none).
LastUser(h) ==
    LET us == {j \in 1..Len(h) : h[j].role = "user"}
    IN IF us = {} THEN 0 ELSE CHOOSE j \in us : \A j2 \in us : j2 <= j

\* iteration_count as a history shows it: the Tool Steps since the last
\* User message, one per Assistant message that a Tool message follows.
IterationCount(h) ==
    Cardinality({i \in (LastUser(h) + 1)..(Len(h) - 1) :
                    h[i].role = "assistant" /\ h[i + 1].role = "tool"})

\* The node supersteps (Agent Steps and Tool Steps) a turn has run: the
\* advance of the step counter past the input and entry steps.
NodeSteps(w) == step[w] - loaded[w].step - 3

\* C8 (iteration bound): the Tool Steps of a turn never exceed the
\* configured maximum, in the running count and in every history, persisted
\* checkpoints and cut-off turns included; nor do its Agent and Tool Steps
\* together.
C8_IterationBound ==
    /\ \A w \in Workers : toolSteps[w] <= RecursionLimit
    /\ \A w \in Workers : InFlight(w) => NodeSteps(w) <= RecursionLimit
    /\ \A h \in Histories : IterationCount(h) <= RecursionLimit

\* C8 witness: a turn cut off by the limit after at least one Tool Step,
\* its checkpoint showing the same count.
C8_Witness ==
    \E w \in Workers :
        /\ pc[w] = "out_of_steps" /\ toolSteps[w] >= 1
        /\ IterationCount(store[thread[w]].messages) = toolSteps[w]

\* C9 (as stated): a turn that ends after n Tool Steps has written n + 1
\* checkpoints.
C9_WritesNPlusOne ==
    \A w \in Workers : pc[w] = "done" => writes[w] = toolSteps[w] + 1

\* C9 (amended): a checkpoint is written after the input and after every
\* superstep (the entry step, each Agent Step, each Tool Step), so a turn
\* that ends after n Tool Steps has written 2n + 3 checkpoints, and one cut
\* off by the limit has written one per allowed superstep plus two.
C9_WritesPerSuperstep ==
    \A w \in Workers :
        /\ pc[w] = "done" => writes[w] = 2 * toolSteps[w] + 3
        /\ pc[w] = "out_of_steps" => writes[w] = RecursionLimit + 2

\* C9 witness: a turn ended after one tool round, five checkpoints written.
C9_Witness ==
    \E w \in Workers : pc[w] = "done" /\ toolSteps[w] = 1 /\ writes[w] = 5

\* C10 (checkpoint round trip): the step that saves the loaded history with
\* the inbound message appended leaves, as the thread's latest checkpoint,
\* a history that is the loaded history, in order, followed by that message.
C10_RoundTrip ==
    [][\A w \in Workers :
          (nxt[w] = "__start__" /\ nxt'[w] = "agent")
          => LET h == store'[thread[w]].messages
                 old == loaded[w].messages
             IN /\ Len(h) = Len(old) + 1
                /\ SubSeq(h, 1, Len(old)) = old
                /\ Last(h).role = "user"
                /\ Last(h).content = msg[w]]_vars

\* C10 witness: the save has just been made on top of a loaded history
\* that was not empty.
C10_Witness ==
    \E w \in Workers :
        /\ pc[w] = "running" /\ nxt[w] = "agent" /\ Last(messages[w]).role = "user"
        /\ Len(loaded[w].messages) >= 2
        /\ store[thread[w]].messages = messages[w]

\* Whether text c ends with text t.
Carries(c, t) == Len(c) >= Len(t) /\ SubSeq(c, Len(c) - Len(t) + 1, Len(c)) = t

\* What went wrong with a tool call, as a text: the name that is not
\* registered, or what the service or the transport said; empty when the
\* call succeeded.
FailureText(call, reply) ==
    IF call.name # "execute_backtest" THEN <<call.name>>
    ELSE IF reply.kind # "ok" THEN reply.body
    ELSE <<>>

\* C11 (tool failure surfacing): a Tool Step in which tool calls fail
\* (unknown tool, non-200 reply, timeout or transport error) does not fail
\* the turn; for every failed call it appends, in the call's position, a
\* Tool message answering that call and carrying the failure text; and the
\* list an Agent Step passes to the model holds every Tool message of the
\* history in its place.
C11_ToolFailureSurfaced ==
    [][\A w \in Workers :
          /\ \A replies \in [1..2 -> ServiceReplies] :
                (toolSteps'[w] = toolSteps[w] + 1 /\ ToolsStep(w, replies)) =>
                    LET calls == Last(messages[w]).tool_calls
                    IN /\ pc'[w] \in {"running", "out_of_steps"}
                       /\ pc'[w] = "running" => nxt'[w] = "agent"
                       /\ Len(messages'[w]) = Len(messages[w]) + Len(calls)
                       /\ \A i \in 1..Len(calls) :
                             LET m == messages'[w][Len(messages[w]) + i]
                                 text == FailureText(calls[i], replies[i])
                             IN text # <<>> =>
                                   /\ m.role = "tool"
                                   /\ m.tool_call_id = calls[i].id
                                   /\ Carries(m.content, text)
          /\ (pc[w] = "running" /\ nxt[w] = "agent" /\ prompt'[w] # <<>>) =>
                \A j \in 1..Len(messages[w]) :
                    messages[w][j].role = "tool" => prompt'[w][j] = messages[w][j]]_vars

\* C11 witness: the model has just been called with a history holding the
\* Tool messages of a failed service call and of an unknown tool.
C11_Witness ==
    \E w \in Workers :
        /\ prompt[w] # <<>>
        /\ \E j \in 1..Len(prompt[w]) :
              prompt[w][j].role = "tool" /\ prompt[w][j].content[1] = "[cannot connect]"
        /\ \E j \in 1..Len(prompt[w]) :
              prompt[w][j].role = "tool" /\ prompt[w][j].content[1] = "[not a valid tool]"

\* C12 (retrieval degradation): an Agent Step whose similarity search
\* raises or returns nothing passes the history as it stood to the model,
\* appends the model's Assistant message to that history and yields it; the
\* turn does not fail.
C12_RetrievalDegrades ==
    [][\A w \in Workers :
          (pc[w] = "running" /\ nxt[w] = "agent" /\ docs'[w] \in {"empty", "error"})
          => /\ prompt'[w] = messages[w]
             /\ Len(messages'[w]) = Len(messages[w]) + 1
             /\ SubSeq(messages'[w], 1, Len(messages[w])) = messages[w]
             /\ Last(messages'[w]).role = "assistant"
             /\ final_state'[w] = <<Last(messages'[w])>>
             /\ pc'[w] \in {"running", "done", "out_of_steps"}]_vars

\* C12 witness: a turn has ended with an answer after a search that raised.
C12_Witness ==
    \E w \in Workers :
        /\ docs[w] = "error" /\ pc[w] = "done"
        /\ Last(prompt[w]).content = msg[w]
        /\ Last(messages[w]).role = "assistant"

\* Whether history a is the beginning of history b.
IsPrefix(a, b) == Len(a) <= Len(b) /\ SubSeq(b, 1, Len(a)) = a

\* C13 (append ordering, as stated): a history only grows at its end, in a
\* handler's graph state from step to step and in the thread's checkpoint
\* across steps and turns, and the Tool messages a Tool Step appends answer
\* the requests of the Assistant message in the order it made them.
C13_AppendOnly ==
    [][/\ \A w \in Workers :
             (InFlight(w) /\ pc'[w] # "idle") => IsPrefix(messages[w], messages'[w])
       /\ \A t \in Threads : IsPrefix(store[t].messages, store'[t].messages)
       /\ \A w \in Workers :
             (pc[w] = "running" /\ nxt[w] = "tools" /\ pc'[w] # "idle") =>
                 LET calls == Last(messages[w]).tool_calls
                 IN \A i \in 1..Len(calls) :
                       /\ messages'[w][Len(messages[w]) + i].role = "tool"
                       /\ messages'[w][Len(messages[w]) + i].tool_call_id = calls[i].id]_vars

\* C14 (response): a turn that has finished returns as its response the
\* content of the last message of its history, which is an Assistant
\* message appended in this turn and carries no tool calls.
C14_ResponseIsLastAssistant ==
    [][\A w \in Workers :
          (pc[w] = "done" /\ outcome'[w].kind = "response")
          => LET m == Last(messages[w])
             IN /\ m.role = "assistant"
                /\ m.tool_calls = <<>>
                /\ Len(messages[w]) > Len(loaded[w].messages) + 1
                /\ outcome'[w].content = m.content]_vars

\* C14 witness: a response has been returned that is the last message of a
\* persisted history in which a Tool Step has run.
C14_Witness ==
    \E w \in Workers, t \in Threads :
        /\ outcome[w].kind = "response"
        /\ store[t].messages # <<>>
        /\ Last(store[t].messages).content = outcome[w].content
        /\ \E j \in 1..Len(store[t].messages) : store[t].messages[j].role = "tool"

\* C15 (model invocation failure is fatal): the Agent Step whose model call
\* raises appends nothing and writes no checkpoint; after it the turn runs
\* no further step, its history and its checkpoint count stay as they
\* were, and when the call ends the caller has an error (or, the handler
\* dying, nothing), never a response.
C15_ModelFailureFatal ==
    [][\A w \in Workers :
          /\ (pc[w] = "running" /\ pc'[w] = "failed")
             => /\ messages'[w] = messages[w]
                /\ writes'[w] = writes[w]
                /\ store' = store
          /\ pc[w] = "failed"
             => /\ Last(messages[w]).role # "assistant"
                /\ pc'[w] \in {"failed", "idle"}
                /\ pc'[w] = "failed" =>
                      (messages'[w] = messages[w] /\ writes'[w] = writes[w]
                          /\ step'[w] = step[w] /\ toolSteps'[w] = toolSteps[w])
                /\ pc'[w] = "idle" =>
                      (store' = store /\ outcome'[w].kind \in {"error", "none"})]_vars

\* C15 witness: the model call of the Agent Step after a Tool Step has
\* raised.
C15_Witness ==
    \E w \in Workers :
        pc[w] = "failed" /\ toolSteps[w] >= 1 /\ Last(messages[w]).role = "tool"

\* A request body reaches handler w: it is validated, then chat_endpoint
\* runs.
Arrives(w, req) ==
    IF Valid(req) THEN Begin(w, req.thread_id, req.message) ELSE Reject(w, req)

\* C16 (thread id required, as stated): a request whose thread_id is
\* missing or is the empty string is answered with a client error, no
\* checkpoint being loaded or written and the model not being called: no
\* turn starts for it.
C16_ThreadIdRequired ==
    [][\A w \in Workers, req \in Requests :
          (Arrives(w, req)
              /\ (IF "thread_id" \in DOMAIN req THEN req.thread_id = "" ELSE TRUE))
          => /\ outcome'[w].kind = "client_error"
             /\ pc'[w] = "idle"
             /\ UNCHANGED <<store, loaded, messages, prompt>>]_vars

\* The Tool message a Tool Step of handler w appends for call i.
Appended(w, i) == messages'[w][Len(messages[w]) + i]

\* C17 (verbatim relay, as stated): what execute_backtest returns is exactly
\* the service's structured result on a successful reply and exactly the
\* service's error text, nothing added or removed, on an error reply.
C17_RelayVerbatim ==
    [][\A w \in Workers : \A replies \in [1..2 -> ServiceReplies] :
          (toolSteps'[w] = toolSteps[w] + 1 /\ ToolsStep(w, replies)) =>
              LET calls == Last(messages[w]).tool_calls
              IN \A i \in 1..Len(calls) :
                    (calls[i].name = "execute_backtest" /\ replies[i].kind \in {"ok", "status"})
                    => Appended(w, i).content = replies[i].body]_vars

\* C17 (amended): what execute_backtest returns is exactly the body of a
\* 200 reply; for a reply with another status it is a fixed label followed
\* by the reply's text, and for a call that raised a fixed label followed by
\* the exception's text.
C17_RelayLabelled ==
    [][\A w \in Workers : \A replies \in [1..2 -> ServiceReplies] :
          (toolSteps'[w] = toolSteps[w] + 1 /\ ToolsStep(w, replies)) =>
              LET calls == Last(messages[w]).tool_calls
              IN \A i \in 1..Len(calls) :
                    calls[i].name = "execute_backtest" =>
                        /\ replies[i].kind = "ok" =>
                              Appended(w, i).content = replies[i].body
                        /\ replies[i].kind = "status" =>
                              Appended(w, i).content = <<"[service error]">> \o replies[i].body
                        /\ replies[i].kind = "exception" =>
                              Appended(w, i).content = <<"[cannot connect]">> \o replies[i].body]_vars

\* C17 witness: the histories hold the Tool message of a 200 reply and the
\* Tool message of a reply with another status.
C17_Witness ==
    \E h1, h2 \in Histories :
        /\ \E j \in 1..Len(h1) : h1[j].role = "tool" /\ h1[j].content = <<"result">>
        /\ \E j \in 1..Len(h2) :
              h2[j].role = "tool" /\ h2[j].content = <<"[service error]", "boom">>

\* C18 (retrieval gating): an Agent Step, whether or not its model call
\* succeeds, runs the similarity search exactly when the last message of
\* the history is a User message; a turn runs the search at most once, in
\* its first Agent Step, and never in an Agent Step that follows a Tool
\* Step.
C18_RetrievalGated ==
    [][\A w \in Workers :
          (pc[w] = "running" /\ nxt[w] = "agent"
              /\ (step'[w] = step[w] + 1 \/ pc'[w] = "failed"))
          => /\ (searches'[w] = searches[w] + 1) <=> (Last(messages[w]).role = "user")
             /\ searches'[w] \in {searches[w], searches[w] + 1}
             /\ searches'[w] <= 1
             /\ searches'[w] # searches[w] => (toolSteps[w] = 0 /\ NodeSteps(w) = 0)
             /\ Last(messages[w]).role = "tool" => searches'[w] = searches[w]
             /\ pc'[w] # "failed" => ((docs'[w] # "none") <=> (searches'[w] # searches[w]))]_vars

\* C18 witness: the Agent Step after a Tool Step has called the model
\* without a search, the turn's one search having been made before.
C18_Witness ==
    \E w \in Workers :
        /\ toolSteps[w] >= 1 /\ prompt[w] # <<>>
        /\ docs[w] = "none" /\ searches[w] = 1

\* C19 (importer flush, as stated, for the archives during which
\* fast_copy_to_db returns every time it is called): no frame is ever passed
\* to fast_copy_to_db twice, a batch holds at most BATCH_SIZE frames, and
\* when the archive's CSV loop is over every CSV that was read and cleaned
\* has been passed to fast_copy_to_db exactly once and the buffer is empty.
C19_EachFrameOnce ==
    ~copy_raised =>
        /\ \A k \in DOMAIN copied : copied[k] <= 1
        /\ Len(dfs_buffer) <= BATCH_SIZE
        /\ importer_pc = "done" =>
              /\ dfs_buffer = <<>>
              /\ \A k \in DOMAIN csv_files : csv_files[k] = "ok" => copied[k] = 1

\* C20 (backtest logs, as stated): whatever the interleaving of concurrent
\* requests, the logs of every successful response are exactly what that
\* request's own strategy printed during its run, and once every request
\* has returned sys.stdout is the original stream again.
C20_LogsAreOwnOutput ==
    /\ \A r \in BtRequests :
          bt_response[r].status = "success" => bt_response[r].logs = Output(r)
    /\ (\A r \in BtRequests : bt_pc[r] = "returned") => sys_stdout = sys___stdout__

====
